---- MODULE Spec2Model ----
(***************************************************************************)
(* Model of the codec engine of LukasInnerhofer/Compression               *)
(* (src/compression.cpp): the run-length codec rle::encode / rle::decode  *)
(* and the Huffman codec huffman::encode (vector and stream overloads),   *)
(* header::serialize / header::deserialize and huffman::decode.           *)
(*                                                                         *)
(* Bytes are kept as bit patterns 0..255.  `char` has implementation-     *)
(* defined signedness; the build's choice is the variable charSigned.     *)
(* A std::vector<bool> is a sequence over {0, 1}.  A tree of node_t is a  *)
(* function from paths (sequences of branch numbers, 0 = children.first,  *)
(* 1 = children.second) to the node's fields; a child pointer is non-null *)
(* exactly when the extended path is in the function's domain.            *)
(***************************************************************************)
EXTENDS Integers, Sequences, FiniteSets, TLC

(***************************************************************************)
(* Bounds of the model.                                                    *)
(***************************************************************************)
\* longest input drawn over the whole alphabet
MaxLen == 4
\* largest number of elements a std::vector can hold before push_back
\* throws std::bad_alloc (memory of the scaled-down machine)
MaxVectorSize == 320
\* largest number of trailing bytes a truncation removes from a stream
MaxDrop == 2

\* the longest code of the tables given to header::serialize on its own
MaxCodeBits == 17

(***************************************************************************)
(* Inputs.                                                                 *)
(***************************************************************************)
Alphabet == {65, 66, 67}

KnownVector == <<65, 65, 65, 66, 66, 67, 67, 67, 67>>

LongRunLengths == {128, 255, 256, 300}

Rep(n, s) == [i \in 1..n |-> s]

SmallInputs == UNION {[1..n -> Alphabet] : n \in 0..MaxLen}

SkewedVector == <<1, 2, 2, 3, 3, 3, 3, 4, 4, 4, 4, 4, 4, 4, 4>>

ExtraInputs == {KnownVector, SkewedVector, <<1, 2, 3, 4>>, <<200, 65>>,
                <<65, 200, 200>>, <<3, 65, 2>>}

\* the inputs of the calls that follow an earlier call
LaterInputs == ExtraInputs

Inputs == SmallInputs \cup ExtraInputs \cup {Rep(n, 65) : n \in LongRunLengths}

\* outcomes of undefined behaviour that ends the call: a fault of the
\* memory system, or the abort of a checked-iterator build
UbOutcomes == {"segfault", "abort"}

VARIABLES
    charSigned,       \* TRUE iff the build's char is signed
    dataIn,           \* the caller's byte sequence
    pc,               \* position of the caller
    overload,         \* huffman::encode overload in use: "vector" or "stream"
    treeNodes,        \* huffman::encode: std::vector<node_t *> treeNodes
    tempBitset,       \* node_t::tempBitset (static)
    code,             \* huffman::encode: std::map<char, std::vector<bool>> code
    headerLen,        \* header::serialize: header.size() before the length is inserted
    encStatus,        \* how huffman::encode ended
    encOut,           \* huffman::encode: dataOut
    truncated,        \* TRUE iff trailing bytes of encOut were removed
    originalDataSize, \* huffman::decode: originalDataSize
    headerSize,       \* huffman::decode: headerSize
    treeNode,         \* huffman::decode: the trie rooted at treeNode
    node,             \* huffman::decode: node, as its path from treeNode
    itBytes,          \* huffman::decode: itBytes, as a 1-based index into dataIn
    itBits,           \* huffman::decode: itBits
    bitsRead,         \* huffman::decode: number of payload bits read so far
    decOut,           \* huffman::decode: dataOut
    decStatus,        \* how huffman::decode ended
    decCode,          \* huffman::decode: code, as header::deserialize returned it
    earlierCalls,     \* TRUE iff a call of huffman::encode returned before this one
    rleOut,           \* rle::encode: dataOut
    rleDecoded,       \* rle::decode: dataOut
    rleStatus,        \* how rle::decode ended
    rleOob            \* TRUE iff rle::decode read past the end of its input

vars == <<charSigned, dataIn, pc, overload, treeNodes, tempBitset, code,
          headerLen, encStatus, encOut, truncated, originalDataSize,
          headerSize, treeNode, node, itBytes, itBits, bitsRead, decOut,
          decStatus, decCode, earlierCalls, rleOut, rleDecoded, rleStatus,
          rleOob>>

huffVars == <<overload, treeNodes, tempBitset, code, headerLen, encStatus,
              encOut, truncated>>

decVars == <<originalDataSize, headerSize, treeNode, node, itBytes, itBits,
             bitsRead, decOut, decStatus, decCode>>

rleVars == <<rleOut, rleDecoded, rleStatus, rleOob>>

(***************************************************************************)
(* Integer conversions.                                                    *)
(***************************************************************************)
\* static_cast<char>(x): the low eight bits
ToChar(x) == x % 256

\* the value of a char in comparisons and integral promotions
CharValue(b) == IF charSigned /\ b >= 128 THEN b - 256 ELSE b

\* uint64_t byteRunCount = *itBytes: a negative char is sign-extended to
\* 2^64 + CharValue(b), at least 2^64 - 128, which no vector can hold; the
\* conversion is kept as the test it decides: TRUE iff pushing the run onto
\* a vector of n elements exhausts the memory.
RunExhaustsMemory(b, n) == CharValue(b) < 0 \/ n + b > MaxVectorSize

Pow2(k) == 2 ^ k

\* (byte & (1 << k)) >> k
BitOf(b, k) == (b \div Pow2(k)) % 2

\* byte |= (bit << k)
OrBit(b, bit, k) == IF bit = 1 /\ BitOf(b, k) = 0 THEN b + Pow2(k) ELSE b

ButLast(s) == SubSeq(s, 1, Len(s) - 1)

OrLast(s, bit, k) == [s EXCEPT ![Len(s)] = OrBit(@, bit, k)]

(***************************************************************************)
(* rle::encode                                                             *)
(***************************************************************************)
\* the do-while of rle::encode: the number of bytes equal to data[i] from i on
ByteRunCount(data, i) ==
    CHOOSE c \in 1..(Len(data) - i + 1) :
        /\ \A d \in 1..(c - 1) : i + d <= Len(data) /\ data[i + d] = data[i]
        /\ (i + c > Len(data) \/ data[i + c] # data[i])

RECURSIVE RleEncodeFrom(_, _, _)
RleEncodeFrom(data, i, out) ==
    IF i > Len(data) THEN out
    ELSE LET byteRunCount == ByteRunCount(data, i)
         IN RleEncodeFrom(data, i + byteRunCount,
                          out \o <<ToChar(byteRunCount), data[i]>>)

RleEncode(data) == RleEncodeFrom(data, 1, <<>>)

(***************************************************************************)
(* rle::decode                                                             *)
(***************************************************************************)
\* The loop of rle::decode from index i.  Reading data[i + 1] past the end
\* is undefined behaviour; after it itBytes has passed end() and the loop
\* cannot end normally.
RECURSIVE RleDecodeFrom(_, _, _)
RleDecodeFrom(data, i, out) ==
    IF i = Len(data) + 1 THEN [status |-> "ok", out |-> out, oob |-> FALSE]
    ELSE IF i + 1 > Len(data) THEN [status |-> "ub", out |-> out, oob |-> TRUE]
    ELSE IF RunExhaustsMemory(data[i], Len(out))
    THEN [status |-> "bad_alloc", out |-> out, oob |-> FALSE]
    ELSE RleDecodeFrom(data, i + 2, out \o Rep(data[i], data[i + 1]))

RleDecode(data) == RleDecodeFrom(data, 1, <<>>)

(***************************************************************************)
(* std::map<char, T>: a function on the set of its keys, iterated in       *)
(* ascending order of the keys compared as char.                           *)
(***************************************************************************)
EmptyMap == <<>>

\* map[k] = v
MapPut(m, k, v) == [x \in DOMAIN m \cup {k} |-> IF x = k THEN v ELSE m[x]]

RECURSIVE MapOrder(_)
MapOrder(keys) ==
    IF keys = {} THEN <<>>
    ELSE LET least == CHOOSE x \in keys : \A y \in keys : CharValue(x) <= CharValue(y)
         IN <<least>> \o MapOrder(keys \ {least})

(***************************************************************************)
(* node_t                                                                  *)
(***************************************************************************)
\* node_t(byte, occurences): a node without children
LeafNode(byte, occurences) ==
    (<<>> :> [byte |-> byte, occurences |-> occurences])

\* node_t(child0, child1, occurences): a node owning child0 as
\* children.first and child1 as children.second; byte keeps its default 0
InnerNode(child0, child1, occurences) ==
    [p \in {<<>>} \cup {<<0>> \o q : q \in DOMAIN child0}
                  \cup {<<1>> \o q : q \in DOMAIN child1} |->
        IF p = <<>> THEN [byte |-> 0, occurences |-> occurences]
        ELSE IF Head(p) = 0 THEN child0[Tail(p)] ELSE child1[Tail(p)]]

\* children.first != nullptr and children.second != nullptr of the node at p
HasFirst(tree, p) == Append(p, 0) \in DOMAIN tree
HasSecond(tree, p) == Append(p, 1) \in DOMAIN tree

\* node_t::getCode without the erase between the two recursive calls
RECURSIVE GetCodeNoErase(_, _, _)
GetCodeNoErase(tree, p, st) ==
    IF HasFirst(tree, p) /\ HasSecond(tree, p)
    THEN LET s1 == [st EXCEPT !.temp = Append(@, 0)]
             s2 == GetCodeNoErase(tree, Append(p, 0), s1)
             s4 == [s2 EXCEPT !.temp = Append(@, 1)]
             s5 == GetCodeNoErase(tree, Append(p, 1), s4)
         IN [s5 EXCEPT !.temp = ButLast(@)]
    ELSE [st EXCEPT !.nodes = MapPut(@, tree[p].byte, st.temp)]

\* node_t::getCode on the node at path p of tree; st holds the map being
\* filled (nodes) and the static node_t::tempBitset (temp)
RECURSIVE GetCode(_, _, _)
GetCode(tree, p, st) ==
    IF HasFirst(tree, p) /\ HasSecond(tree, p)
    THEN LET s1 == [st EXCEPT !.temp = Append(@, 0)]
             s2 == GetCode(tree, Append(p, 0), s1)
             s3 == [s2 EXCEPT !.temp = ButLast(@)]
             s4 == [s3 EXCEPT !.temp = Append(@, 1)]
             s5 == GetCode(tree, Append(p, 1), s4)
         IN [s5 EXCEPT !.temp = ButLast(@)]
    ELSE [st EXCEPT !.nodes = MapPut(@, tree[p].byte, st.temp)]

(***************************************************************************)
(* huffman::encode: frequency count and tree construction                  *)
(***************************************************************************)
\* byteOccurences after the counting loop
ByteOccurences(data) ==
    [b \in {data[i] : i \in DOMAIN data} |->
        Cardinality({i \in DOMAIN data : data[i] = b})]

\* treeNodes after the loop that creates one node per counted byte
InitialTreeNodes(data) ==
    LET occ == ByteOccurences(data)
        order == MapOrder(DOMAIN occ)
    IN [k \in 1..Len(order) |-> LeafNode(order[k], occ[order[k]])]

Occurences(tree) == tree[<<>>].occurences

\* std::sort by occurences: the results the library may produce, every
\* ordering of the elements that ascends in occurences (the order of
\* elements that compare equal is unspecified)
SortResults(nodes) ==
    LET n == Len(nodes)
        perms == {f \in [1..n -> 1..n] : \A i, j \in 1..n : i # j => f[i] # f[j]}
    IN {[k \in 1..n |-> nodes[f[k]]] : f \in
           {g \in perms : \A k \in 1..(n - 1) :
               Occurences(nodes[g[k]]) <= Occurences(nodes[g[k + 1]])}}

\* the body of the while loop pairing the first element with the last one
MergeFirstAndLast(sorted) ==
    SubSeq(Append(sorted, InnerNode(sorted[1], sorted[Len(sorted)],
                     Occurences(sorted[1]) + Occurences(sorted[Len(sorted)]))),
           3, Len(sorted) + 1)

\* the body of the while loop after the sort: push the parent of the first
\* two elements, then erase these two
MergeFirstTwo(sorted) ==
    SubSeq(Append(sorted, InnerNode(sorted[1], sorted[2],
                     Occurences(sorted[1]) + Occurences(sorted[2]))),
           3, Len(sorted) + 1)

(***************************************************************************)
(* header::serialize                                                       *)
(***************************************************************************)
\* the inner for loop of header::serialize: packs bits[itCodeBits + 1 ..]
\* into the last byte of header from bit itBits downwards
RECURSIVE SerializeBits(_, _, _, _)
SerializeBits(header, bits, itCodeBits, bitPos) ==
    IF itCodeBits >= Len(bits) THEN header
    ELSE LET h1 == OrLast(header, bits[itCodeBits + 1], bitPos)
             next == itCodeBits + 1
         IN IF bitPos - 1 < 0
            THEN SerializeBits(IF next < Len(bits) THEN Append(h1, 0) ELSE h1,
                               bits, next, 7)
            ELSE SerializeBits(h1, bits, next, bitPos - 1)

\* one iteration of the outer loop packing the bits from the last to the first
SerializeEntryReversed(header, symbol, bits) ==
    SerializeBits(header \o <<symbol, ToChar(Len(bits)), 0>>,
                  [k \in 1..Len(bits) |-> bits[Len(bits) + 1 - k]], 0, 7)

\* one iteration of the outer loop: symbol, bit count, a zero byte, the bits
SerializeEntry(header, symbol, bits) ==
    SerializeBits(header \o <<symbol, ToChar(Len(bits)), 0>>, bits, 0, 7)

RECURSIVE SerializeEntries(_, _, _)
SerializeEntries(header, codeMap, order) ==
    IF order = <<>> THEN header
    ELSE SerializeEntries(SerializeEntry(header, Head(order), codeMap[Head(order)]),
                          codeMap, Tail(order))

\* the two inserts with the size of the entries alone
InsertHeaderSizeOfEntries(header) ==
    <<ToChar(Len(header) \div 256), ToChar(Len(header))>> \o header

\* the two inserts at the front of header: the low byte of size + 2, then
\* the high byte computed from the size grown by one
InsertHeaderSize(header) ==
    LET h1 == <<ToChar(Len(header) + 2)>> \o header
    IN <<ToChar((Len(h1) + 1) \div 256)>> \o h1

Serialize(codeMap) ==
    InsertHeaderSize(SerializeEntries(<<>>, codeMap, MapOrder(DOMAIN codeMap)))

(***************************************************************************)
(* huffman::encode: length field and payload                               *)
(***************************************************************************)
\* the bits of the codes of data[lo..hi], in the order the loops over the
\* input and over code[byte] visit them
RECURSIVE CodeBits(_, _, _, _)
CodeBits(data, codeMap, lo, hi) ==
    IF lo > hi THEN <<>>
    ELSE IF lo = hi THEN codeMap[data[lo]]
    ELSE LET mid == (lo + hi) \div 2
         IN CodeBits(data, codeMap, lo, mid) \o CodeBits(data, codeMap, mid + 1, hi)

\* vector overload: the four inserts at the front of dataOut
InsertOriginalSize(out, size) ==
    <<ToChar(size \div 16777216), ToChar(size \div 65536),
      ToChar(size \div 256), ToChar(size)>> \o out

\* vector overload: the packing loop on dataOut, whose last byte is open
RECURSIVE PackVector(_, _, _, _)
PackVector(out, bits, k, bitPos) ==
    IF k > Len(bits) THEN out
    ELSE LET o1 == OrLast(out, bits[k], bitPos)
         IN IF bitPos - 1 < 0
            THEN PackVector(Append(o1, 0), bits, k + 1, 7)
            ELSE PackVector(o1, bits, k + 1, bitPos - 1)

\* huffman::encode(vector), from the call of header::serialize on
EncodeVectorOut(data, codeMap) ==
    PackVector(Append(InsertOriginalSize(Serialize(codeMap), Len(data)), 0),
               CodeBits(data, codeMap, 1, Len(data)), 1, 7)

\* stream overload: the four writes of size, low byte first
WriteOriginalSize(size) ==
    <<ToChar(size), ToChar(size \div 256),
      ToChar(size \div 65536), ToChar(size \div 16777216)>>

\* stream overload: the packing loop; outByte is written when its last bit
\* is set and is never cleared, and is not written after the loop
RECURSIVE PackStream(_, _, _, _, _)
PackStream(out, outByte, bits, k, bitPos) ==
    IF k > Len(bits) THEN out
    ELSE LET b1 == OrBit(outByte, bits[k], bitPos)
         IN IF bitPos - 1 < 0
            THEN PackStream(Append(out, b1), b1, bits, k + 1, 7)
            ELSE PackStream(out, b1, bits, k + 1, bitPos - 1)

\* huffman::encode(istream, ostream), everything written to dataOut
EncodeStreamOut(data, codeMap) ==
    PackStream(WriteOriginalSize(Len(data)) \o Serialize(codeMap), 0,
               CodeBits(data, codeMap, 1, Len(data)), 1, 7)

(***************************************************************************)
(* header::deserialize                                                     *)
(***************************************************************************)
\* code[byte].push_back(bit)
MapPushBack(m, k, bit) ==
    MapPut(m, k, (IF k \in DOMAIN m THEN m[k] ELSE <<>>) \o <<bit>>)

\* the while loop of header::deserialize for one entry: codeBitCount is the
\* count before its decrement, i the index of the byte being read
RECURSIVE DeserializeBits(_, _, _, _, _, _)
DeserializeBits(header, i, codeBitCount, bitPos, byte, codeMap) ==
    IF codeBitCount - 1 < 0 THEN [status |-> "ok", i |-> i, code |-> codeMap]
    ELSE IF i > Len(header) THEN [status |-> "ub", i |-> i, code |-> codeMap]
    ELSE LET m1 == MapPushBack(codeMap, byte, BitOf(header[i], bitPos))
             left == codeBitCount - 1
         IN IF bitPos - 1 < 0
            THEN DeserializeBits(header, IF left > 0 THEN i + 1 ELSE i, left, 7, byte, m1)
            ELSE DeserializeBits(header, i, left, bitPos - 1, byte, m1)

\* the do-while loop of header::deserialize from index i; reading at or
\* stepping past end() is undefined behaviour.  starts lists the indices at
\* which the iterations began.
RECURSIVE DeserializeFrom(_, _, _)
DeserializeFrom(header, i, codeMap) ==
    IF i + 1 > Len(header)
    THEN [status |-> "ub", code |-> codeMap, starts |-> <<i>>]
    ELSE LET r == DeserializeBits(header, i + 2, CharValue(header[i + 1]), 7,
                                  header[i], codeMap)
         IN IF r.status = "ub"
            THEN [status |-> "ub", code |-> r.code, starts |-> <<i>>]
            ELSE IF r.i + 1 = Len(header) + 1
            THEN [status |-> "ok", code |-> r.code, starts |-> <<i>>]
            ELSE LET rest == DeserializeFrom(header, r.i + 1, r.code)
                 IN [rest EXCEPT !.starts = <<i>> \o @]

Deserialize(header) == DeserializeFrom(header, 1, EmptyMap)

\* the value of decCode while header::deserialize has not been called
NotDeserialized == [status |-> "none", code |-> EmptyMap, starts |-> <<>>]

(***************************************************************************)
(* huffman::decode                                                         *)
(***************************************************************************)
\* uint32_t originalDataSize, kept as its two 16-bit halves
ReadOriginalSize(in) ==
    [hi |-> in[1] * 256 + in[2], lo |-> in[3] * 256 + in[4]]

ReadHeaderSize(in) == in[5] * 256 + in[6]

\* 1-based index of the first byte after the code table, as decode computes
\* it: dataIn.begin() + headerSize + 4
PayloadBegin(hSize) == hSize + 4 + 1

\* the argument of header::deserialize: dataIn.begin() + 6 up to
\* dataIn.begin() + headerSize + 4
HeaderSlice(in, hSize) == SubSeq(in, 7, hSize + 4)

\* treeNode = new node_t(nullptr, nullptr)
TrieRoot == LeafNode(0, 0)

\* the inner loop of the trie rebuild for one (byte, code) pair: every
\* missing node on the path is created, with the byte on the last one
InsertCode(trie, byte, bits) ==
    [p \in DOMAIN trie \cup {SubSeq(bits, 1, j) : j \in 1..Len(bits)} |->
        IF p \in DOMAIN trie THEN trie[p]
        ELSE [byte |-> IF p = bits THEN byte ELSE 0, occurences |-> 0]]

RECURSIVE InsertCodes(_, _, _)
InsertCodes(trie, codeMap, order) ==
    IF order = <<>> THEN trie
    ELSE InsertCodes(InsertCode(trie, Head(order), codeMap[Head(order)]),
                     codeMap, Tail(order))

BuildTrie(codeMap) == InsertCodes(TrieRoot, codeMap, MapOrder(DOMAIN codeMap))

\* while (dataOut.size() > originalDataSize) dataOut.erase(dataOut.end() - 1)
EraseExcess(out, size) ==
    IF size.hi = 0 /\ Len(out) > size.lo THEN SubSeq(out, 1, size.lo) ELSE out

(***************************************************************************)
(* Initial state and the run-length operations.                            *)
(***************************************************************************)
Init ==
    /\ charSigned \in BOOLEAN
    /\ dataIn \in Inputs
    /\ pc = "idle"
    /\ overload = "none"
    /\ treeNodes = <<>>
    /\ tempBitset = <<>>
    /\ code = <<>>
    /\ headerLen = 0
    /\ encStatus = "none"
    /\ encOut = <<>>
    /\ truncated = FALSE
    /\ originalDataSize = [hi |-> 0, lo |-> 0]
    /\ headerSize = 0
    /\ treeNode = <<>>
    /\ node = <<>>
    /\ itBytes = 0
    /\ itBits = 7
    /\ bitsRead = 0
    /\ decOut = <<>>
    /\ decStatus = "none"
    /\ decCode = NotDeserialized
    /\ earlierCalls = FALSE
    /\ rleOut = <<>>
    /\ rleDecoded = <<>>
    /\ rleStatus = "none"
    /\ rleOob = FALSE

\* the caller runs rle::encode on its data
RleEncodeCall ==
    /\ pc = "idle"
    /\ rleOut' = RleEncode(dataIn)
    /\ pc' = "rleEncoded"
    /\ UNCHANGED <<charSigned, dataIn, earlierCalls, rleDecoded, rleStatus, rleOob>>
    /\ UNCHANGED huffVars
    /\ UNCHANGED decVars

\* the caller runs rle::decode, on the encoder's output or on its own data
RleDecodeCall ==
    /\ pc \in {"idle", "rleEncoded"}
    /\ LET r == RleDecode(IF pc = "idle" THEN dataIn ELSE rleOut)
       IN /\ rleDecoded' = r.out
          /\ rleOob' = r.oob
          /\ IF r.status = "ub"
             THEN rleStatus' \in UbOutcomes \cup {"bad_alloc"}
             ELSE rleStatus' = r.status
    /\ pc' = IF pc = "idle" THEN "rleRawDone" ELSE "rleDone"
    /\ UNCHANGED <<charSigned, dataIn, earlierCalls, rleOut>>
    /\ UNCHANGED huffVars
    /\ UNCHANGED decVars

(***************************************************************************)
(* huffman::encode                                                         *)
(***************************************************************************)
\* entry of an overload: the frequency count and one node per counted byte
HuffmanEncodeBegin ==
    /\ pc = "idle"
    /\ overload' \in {"vector", "stream"}
    /\ treeNodes' = InitialTreeNodes(dataIn)
    /\ pc' = "build"
    /\ UNCHANGED <<charSigned, dataIn, earlierCalls, tempBitset, code, headerLen,
                   encStatus, encOut, truncated>>
    /\ UNCHANGED decVars
    /\ UNCHANGED rleVars

\* one iteration of while (treeNodes.size() > 1)
HuffmanMerge ==
    /\ pc = "build"
    /\ Len(treeNodes) > 1
    /\ \E sorted \in SortResults(treeNodes) : treeNodes' = MergeFirstTwo(sorted)
    /\ UNCHANGED <<charSigned, dataIn, earlierCalls, pc, overload, tempBitset, code,
                   headerLen, encStatus, encOut, truncated>>
    /\ UNCHANGED decVars
    /\ UNCHANGED rleVars

\* the vector overload after the loop: treeNodes[0]->getCode, the header,
\* the original size and the payload.  With no node, treeNodes[0] reads an
\* empty vector, which is undefined behaviour.
HuffmanFinishVector ==
    /\ pc = "build"
    /\ overload = "vector"
    /\ Len(treeNodes) <= 1
    /\ IF treeNodes = <<>>
       THEN /\ encStatus' \in UbOutcomes
            /\ pc' = "encodeFailed"
            /\ UNCHANGED <<tempBitset, code, headerLen, encOut>>
       ELSE LET st == GetCode(treeNodes[1], <<>>, [nodes |-> EmptyMap, temp |-> tempBitset])
            IN /\ tempBitset' = st.temp
               /\ code' = st.nodes
               /\ headerLen' = Len(SerializeEntries(<<>>, st.nodes, MapOrder(DOMAIN st.nodes)))
               /\ encOut' = EncodeVectorOut(dataIn, st.nodes)
               /\ encStatus' = "ok"
               /\ pc' = "encoded"
    /\ UNCHANGED <<charSigned, dataIn, earlierCalls, overload, treeNodes, truncated>>
    /\ UNCHANGED decVars
    /\ UNCHANGED rleVars

\* the stream overload after the loop: the original size is written before
\* treeNodes[0]->getCode is called
HuffmanFinishStream ==
    /\ pc = "build"
    /\ overload = "stream"
    /\ Len(treeNodes) <= 1
    /\ IF treeNodes = <<>>
       THEN /\ encStatus' \in UbOutcomes
            /\ encOut' = WriteOriginalSize(Len(dataIn))
            /\ pc' = "encodeFailed"
            /\ UNCHANGED <<tempBitset, code, headerLen>>
       ELSE LET st == GetCode(treeNodes[1], <<>>, [nodes |-> EmptyMap, temp |-> tempBitset])
            IN /\ tempBitset' = st.temp
               /\ code' = st.nodes
               /\ headerLen' = Len(SerializeEntries(<<>>, st.nodes, MapOrder(DOMAIN st.nodes)))
               /\ encOut' = EncodeStreamOut(dataIn, st.nodes)
               /\ encStatus' = "ok"
               /\ pc' = "encoded"
    /\ UNCHANGED <<charSigned, dataIn, earlierCalls, overload, treeNodes, truncated>>
    /\ UNCHANGED decVars
    /\ UNCHANGED rleVars

\* the stream loses trailing bytes on its way to the decoder; the length
\* fields and the code table stay whole
Truncate ==
    /\ pc = "encoded"
    /\ ~truncated
    /\ \E k \in 1..MaxDrop :
          /\ Len(encOut) - k >= ReadHeaderSize(encOut) + 4
          /\ encOut' = SubSeq(encOut, 1, Len(encOut) - k)
    /\ truncated' = TRUE
    /\ UNCHANGED <<charSigned, dataIn, earlierCalls, pc, overload, treeNodes,
                   tempBitset, code, headerLen, encStatus>>
    /\ UNCHANGED decVars
    /\ UNCHANGED rleVars

(***************************************************************************)
(* huffman::decode                                                         *)
(***************************************************************************)
\* huffman::decode up to the bit walk: the two sizes, the code table and
\* the trie
HuffmanDecodeBegin ==
    /\ pc = "encoded"
    /\ LET hSize == ReadHeaderSize(encOut)
           r == Deserialize(HeaderSlice(encOut, hSize))
       IN /\ originalDataSize' = ReadOriginalSize(encOut)
          /\ headerSize' = hSize
          /\ decCode' = r
          /\ IF r.status = "ub"
             THEN /\ decStatus' \in UbOutcomes
                  /\ pc' = "decoded"
                  /\ UNCHANGED <<treeNode, itBytes>>
             ELSE /\ treeNode' = BuildTrie(r.code)
                  /\ itBytes' = PayloadBegin(hSize)
                  /\ decStatus' = "running"
                  /\ pc' = "walk"
    /\ UNCHANGED <<charSigned, dataIn, earlierCalls, node, itBits, bitsRead, decOut>>
    /\ UNCHANGED huffVars
    /\ UNCHANGED rleVars

\* an iteration of while (true) at a node that lacks a child: its byte is
\* pushed and the walk returns to the root; push_back throws when the
\* memory is exhausted
HuffmanDecodeEmit ==
    /\ pc = "walk"
    /\ (~HasSecond(treeNode, node) \/ ~HasFirst(treeNode, node))
    /\ IF Len(decOut) >= MaxVectorSize
       THEN /\ decStatus' = "bad_alloc"
            /\ pc' = "decoded"
            /\ UNCHANGED <<decOut, node>>
       ELSE /\ decOut' = Append(decOut, treeNode[node].byte)
            /\ node' = <<>>
            /\ UNCHANGED <<decStatus, pc>>
    /\ UNCHANGED <<charSigned, dataIn, earlierCalls, originalDataSize, headerSize,
                   treeNode, itBytes, itBits, bitsRead, decCode>>
    /\ UNCHANGED huffVars
    /\ UNCHANGED rleVars

\* an iteration of while (true) at a node with both children: one bit is
\* read and followed; when the last byte is used up the loop is left, the
\* excess output erased and the output returned.  Reading at or past end()
\* is undefined behaviour; itBytes then never equals end() again.
HuffmanDecodeBit ==
    /\ pc = "walk"
    /\ HasSecond(treeNode, node) /\ HasFirst(treeNode, node)
    /\ IF itBytes > Len(encOut)
       THEN /\ decStatus' \in UbOutcomes \cup {"bad_alloc"}
            /\ pc' = "decoded"
            /\ UNCHANGED <<node, itBytes, itBits, bitsRead, decOut>>
       ELSE /\ node' = Append(node, BitOf(encOut[itBytes], itBits))
            /\ bitsRead' = bitsRead + 1
            /\ IF itBits - 1 < 0
               THEN /\ itBits' = 7
                    /\ itBytes' = itBytes + 1
                    /\ IF itBytes + 1 = Len(encOut) + 1
                       THEN /\ decOut' = EraseExcess(decOut, originalDataSize)
                            /\ decStatus' = "ok"
                            /\ pc' = "decoded"
                       ELSE UNCHANGED <<decOut, decStatus, pc>>
               ELSE /\ itBits' = itBits - 1
                    /\ UNCHANGED <<itBytes, decOut, decStatus, pc>>
    /\ UNCHANGED <<charSigned, dataIn, earlierCalls, originalDataSize, headerSize,
                   treeNode, decCode>>
    /\ UNCHANGED huffVars
    /\ UNCHANGED rleVars

\* the caller goes on to its next call once huffman::encode, or huffman::decode
\* after it, has returned: the locals of the calls are gone, the static
\* node_t::tempBitset is what the last getCode left
NextCall ==
    /\ \/ pc = "encoded"
       \/ pc = "decoded" /\ decStatus = "ok"
    /\ dataIn' \in LaterInputs
    /\ earlierCalls' = TRUE
    /\ pc' = "idle"
    /\ overload' = "none"
    /\ treeNodes' = <<>>
    /\ code' = <<>>
    /\ headerLen' = 0
    /\ encStatus' = "none"
    /\ encOut' = <<>>
    /\ truncated' = FALSE
    /\ originalDataSize' = [hi |-> 0, lo |-> 0]
    /\ headerSize' = 0
    /\ treeNode' = <<>>
    /\ node' = <<>>
    /\ itBytes' = 0
    /\ itBits' = 7
    /\ bitsRead' = 0
    /\ decOut' = <<>>
    /\ decStatus' = "none"
    /\ decCode' = NotDeserialized
    /\ UNCHANGED <<charSigned, tempBitset>>
    /\ UNCHANGED rleVars

Next ==
    \/ RleEncodeCall
    \/ RleDecodeCall
    \/ HuffmanEncodeBegin
    \/ HuffmanMerge
    \/ HuffmanFinishVector
    \/ HuffmanFinishStream
    \/ Truncate
    \/ HuffmanDecodeBegin
    \/ HuffmanDecodeEmit
    \/ HuffmanDecodeBit
    \/ NextCall

Spec == Init /\ [][Next]_vars

(***************************************************************************)
(* header::serialize and header::deserialize on their own: the code table  *)
(* is drawn from CodeTables, serialize is applied to it and deserialize to *)
(* the entries serialize wrote.  code holds the table, encOut the          *)
(* serialized header, decCode what deserialize returned.                   *)
(***************************************************************************)
Max(a, b) == IF a >= b THEN a ELSE b

CodeLengths == {0, 1, 2, 7, 8, 9, 15, 16, MaxCodeBits}

BitPatterns(n) ==
    {[i \in 1..n |-> 1], [i \in 1..n |-> 0],
     [i \in 1..n |-> i % 2], [i \in 1..n |-> (i + 1) % 2]}

Codes == UNION {BitPatterns(n) : n \in CodeLengths}

\* tables of one entry, and tables of two entries with codes of one bit or
\* more; 200 is a negative char where char is signed
CodeTables ==
    {(65 :> c) : c \in Codes}
    \cup {(65 :> c) @@ (200 :> d) : c \in Codes \ {<<>>}, d \in Codes \ {<<>>}}

HeaderInit ==
    /\ charSigned \in BOOLEAN
    /\ dataIn = <<>>
    /\ pc = "table"
    /\ overload = "none"
    /\ treeNodes = <<>>
    /\ tempBitset = <<>>
    /\ code \in CodeTables
    /\ headerLen = 0
    /\ encStatus = "none"
    /\ encOut = <<>>
    /\ truncated = FALSE
    /\ originalDataSize = [hi |-> 0, lo |-> 0]
    /\ headerSize = 0
    /\ treeNode = <<>>
    /\ node = <<>>
    /\ itBytes = 0
    /\ itBits = 7
    /\ bitsRead = 0
    /\ decOut = <<>>
    /\ decStatus = "none"
    /\ decCode = NotDeserialized
    /\ earlierCalls = FALSE
    /\ rleOut = <<>>
    /\ rleDecoded = <<>>
    /\ rleStatus = "none"
    /\ rleOob = FALSE

\* header::serialize(code)
HeaderSerializeCall ==
    /\ pc = "table"
    /\ encOut' = Serialize(code)
    /\ headerLen' = Len(SerializeEntries(<<>>, code, MapOrder(DOMAIN code)))
    /\ pc' = "serialized"
    /\ UNCHANGED <<charSigned, dataIn, earlierCalls, overload, treeNodes, tempBitset,
                   code, encStatus, truncated>>
    /\ UNCHANGED decVars
    /\ UNCHANGED rleVars

\* header::deserialize on the entries, the header without its two size bytes
HeaderDeserializeCall ==
    /\ pc = "serialized"
    /\ decCode' = Deserialize(SubSeq(encOut, 3, Len(encOut)))
    /\ pc' = "deserialized"
    /\ UNCHANGED <<charSigned, dataIn, earlierCalls, originalDataSize, headerSize,
                   treeNode, node, itBytes, itBits, bitsRead, decOut, decStatus>>
    /\ UNCHANGED huffVars
    /\ UNCHANGED rleVars

HeaderNext ==
    \/ HeaderSerializeCall
    \/ HeaderDeserializeCall

SpecHeader == HeaderInit /\ [][HeaderNext]_vars

(***************************************************************************)
(* Properties.                                                             *)
(***************************************************************************)
Symbols(data) == {data[i] : i \in DOMAIN data}

IsPrefix(a, b) == Len(a) <= Len(b) /\ SubSeq(b, 1, Len(a)) = a

IsRun(data) == Len(data) >= 1 /\ data = Rep(Len(data), data[1])

Encoded == pc \in {"encoded", "walk", "decoded"}

\* the big-endian bytes of a 32-bit and of a 16-bit value
BigEndian4(x) ==
    <<(x \div 16777216) % 256, (x \div 65536) % 256, (x \div 256) % 256, x % 256>>
BigEndian2(x) == <<(x \div 256) % 256, x % 256>>

RECURSIVE SumCounts(_, _)
SumCounts(records, k) ==
    IF k > Len(records) THEN 0 ELSE records[k] + SumCounts(records, k + 2)

\* number of payload bytes of the stream handed to the decoder
PayloadBytes == Len(encOut) - (6 + headerLen)

\* C1: huffman.decode(huffman.encode(b)) returns exactly b for every byte
\* sequence b: encode completes, decode completes, and the decoded bytes are
\* the input in the same order.
C1_HuffmanRoundTrip ==
    (overload = "vector" /\ ~truncated /\ pc \in {"encodeFailed", "decoded"}) =>
        (encStatus = "ok" /\ decStatus = "ok" /\ decOut = dataIn)

\* C2: rle.decode(rle.encode(b)) returns exactly b for every byte sequence b.
C2_RleRoundTrip ==
    pc = "rleDone" => (rleStatus = "ok" /\ rleDecoded = dataIn)

\* C3: for a run of n identical bytes s, every record rle.encode emits has a
\* count between 1 and 255 and the symbol s, the counts sum to n, a run of
\* 300 is encoded as (255, s), (45, s), and rle.decode returns the run.
C3_RleRunCap ==
    (pc \in {"rleEncoded", "rleDone"} /\ IsRun(dataIn)) =>
        /\ Len(rleOut) % 2 = 0
        /\ \A k \in 1..(Len(rleOut) \div 2) :
              rleOut[2 * k - 1] \in 1..255 /\ rleOut[2 * k] = dataIn[1]
        /\ SumCounts(rleOut, 1) = Len(dataIn)
        /\ (Len(dataIn) = 300 => rleOut = <<255, dataIn[1], 45, dataIn[1]>>)
        /\ (pc = "rleDone" => rleStatus = "ok" /\ rleDecoded = dataIn)

\* C4: for n >= 1 copies of one byte s, huffman.encode writes n as the
\* original length and a code table with the single entry s of bit-length 0,
\* and huffman.decode returns n copies of s without reading a payload bit.
C4_SingleSymbol ==
    (overload = "vector" /\ ~truncated /\ IsRun(dataIn)) =>
        /\ pc # "encodeFailed"
        /\ Encoded =>
              /\ SubSeq(encOut, 1, 4) = BigEndian4(Len(dataIn))
              /\ DOMAIN code = {dataIn[1]}
              /\ code[dataIn[1]] = <<>>
        /\ pc = "decoded" =>
              (decStatus = "ok" /\ decOut = dataIn /\ bitsRead = 0)

\* C5: huffman.encode of the empty sequence completes with original length
\* 0 and an empty code table, and huffman.decode of it returns the empty
\* sequence.
C5_EmptyInput ==
    (dataIn = <<>> /\ overload = "vector" /\ ~truncated) =>
        /\ pc # "encodeFailed"
        /\ Encoded =>
              (SubSeq(encOut, 1, 4) = <<0, 0, 0, 0>> /\ DOMAIN code = {})
        /\ pc = "decoded" => (decStatus = "ok" /\ decOut = <<>>)

\* C6: the code table huffman.encode extracts is prefix-free: every symbol
\* of the input has a code, for two distinct symbols of the input neither
\* code is a prefix of (or equal to) the other, and each code is the path
\* from the root to the symbol's childless node, children.first being bit 0
\* and children.second bit 1.
C6_PrefixFree ==
    Encoded =>
        /\ DOMAIN code = Symbols(dataIn)
        /\ \A a, b \in Symbols(dataIn) :
              a # b => ~IsPrefix(code[a], code[b])
        /\ \A a \in Symbols(dataIn) :
              /\ code[a] \in DOMAIN treeNodes[1]
              /\ ~HasFirst(treeNodes[1], code[a])
              /\ ~HasSecond(treeNodes[1], code[a])
              /\ treeNodes[1][code[a]].byte = a

C6_Witness ==
    /\ pc = "encoded"
    /\ Cardinality(Symbols(dataIn)) >= 3
    /\ \E a, b \in DOMAIN code : Len(code[a]) = 1 /\ Len(code[b]) = 3

\* C7: huffman.decode of a stream whose payload ends before originalLength
\* symbols can be decoded fails and returns no byte sequence.  The code has
\* no MalformedInput result; every end of the call other than a normal
\* return is counted as the failure.
C7_TruncatedFails ==
    (pc = "decoded" /\ overload = "vector" /\ truncated
        /\ Len(CodeBits(dataIn, code, 1, Len(dataIn))) > 8 * PayloadBytes) =>
        decStatus # "ok"

\* C8: rle.decode of an input of odd length fails, returns no decoded bytes
\* and reads no (count, symbol) pair past the end of the input.  Every end
\* of the call other than a normal return is counted as the failure.
C8_RleOddLength ==
    (pc = "rleRawDone" /\ Len(dataIn) % 2 = 1) =>
        (rleStatus # "ok" /\ ~rleOob)

\* C9 as stated: the field at offsets 4-5 equals the number of bytes of the
\* code-table entries (the two length bytes not counted), the payload begins
\* at offset 6 + headerLength, and huffman.decode reads from these offsets.
C9_HeaderLengthExcludesItself ==
    Encoded =>
        /\ ReadHeaderSize(encOut) = headerLen
        /\ pc = "walk" =>
              itBytes = (6 + ReadHeaderSize(encOut)) + 1 + bitsRead \div 8

\* C9 amended: the field at offsets 4-5 equals the number of bytes of the
\* code-table entries plus 2 (it counts its own two bytes), so the payload
\* begins at offset 4 + headerLength = 6 + entry bytes; huffman.decode hands
\* exactly the entry bytes from offset 6 to header::deserialize and reads
\* the payload from offset 4 + headerLength on.
C9_HeaderLengthCountsItself ==
    Encoded =>
        /\ ReadHeaderSize(encOut) = headerLen + 2
        /\ SubSeq(encOut, 7, 6 + headerLen) =
              SerializeEntries(<<>>, code, MapOrder(DOMAIN code))
        /\ pc \in {"walk", "decoded"} =>
              /\ headerSize = ReadHeaderSize(encOut)
              /\ HeaderSlice(encOut, headerSize) = SubSeq(encOut, 7, 6 + headerLen)
        /\ pc = "walk" =>
              itBytes = (4 + ReadHeaderSize(encOut)) + 1 + bitsRead \div 8

C9_Witness ==
    /\ pc = "walk"
    /\ headerLen >= 9
    /\ bitsRead >= 9
    /\ itBytes = 6 + headerLen + 2

\* C10: every huffman.encode overload writes the 4-byte original length and
\* the 2-byte header length most significant byte first, the order in which
\* huffman.decode reads them.
C10_BigEndianLengths ==
    (Encoded /\ encStatus = "ok") =>
        /\ SubSeq(encOut, 1, 4) = BigEndian4(Len(dataIn))
        /\ SubSeq(encOut, 5, 6) = BigEndian2(headerLen + 2)
        /\ pc \in {"walk", "decoded"} =>
              originalDataSize = [hi |-> 0, lo |-> Len(dataIn)]


\* the number of data bytes that hold n bits
DataBytes(n) == (n + 7) \div 8

\* the entry as the format describes it: symbol, bit count, then the bits
\* most significant first, the last byte padded with zero bits, in at least
\* minData data bytes
ExpectedEntry(symbol, bits, minData) ==
    LET B(k) == IF k <= Len(bits) THEN bits[k] ELSE 0
    IN <<symbol, Len(bits)>> \o
       [j \in 1..Max(minData, DataBytes(Len(bits))) |->
           128 * B(8 * j - 7) + 64 * B(8 * j - 6) + 32 * B(8 * j - 5)
           + 16 * B(8 * j - 4) + 8 * B(8 * j - 3) + 4 * B(8 * j - 2)
           + 2 * B(8 * j - 1) + B(8 * j)]

RECURSIVE ExpectedEntries(_, _, _)
ExpectedEntries(codeMap, order, minData) ==
    IF order = <<>> THEN <<>>
    ELSE ExpectedEntry(Head(order), codeMap[Head(order)], minData)
         \o ExpectedEntries(codeMap, Tail(order), minData)

\* the indices at which the entries start
RECURSIVE ExpectedStarts(_, _, _, _)
ExpectedStarts(codeMap, order, minData, i) ==
    IF order = <<>> THEN <<>>
    ELSE <<i>> \o ExpectedStarts(codeMap, Tail(order), minData,
                     i + Len(ExpectedEntry(Head(order), codeMap[Head(order)], minData)))

\* the entries header::serialize wrote are those of the format with at least
\* minData data bytes each, and header::deserialize began one iteration at
\* the start of each entry and ended at the end of the last
EntriesOfSize(minData) ==
    LET order == MapOrder(DOMAIN code)
    IN /\ pc \in {"serialized", "deserialized"} =>
            SubSeq(encOut, 3, Len(encOut)) = ExpectedEntries(code, order, minData)
       /\ pc = "deserialized" =>
            /\ decCode.status = "ok"
            /\ decCode.starts = ExpectedStarts(code, order, minData, 1)

\* C11 as stated: header.serialize emits for each entry exactly
\* 2 + ceil(bitlength/8) bytes (symbol, bit count, bits MSB-first with zero
\* padding), so an entry of bit-length 0 takes 2 bytes, and
\* header.deserialize consumes the same number of bytes per entry.
C11_EntryBytesAsStated == EntriesOfSize(0)

\* C11 (amended): each entry takes 2 + max(1, ceil(bitlength/8)) bytes
\* (symbol, bit count, bits MSB-first with zero padding), so an entry of
\* bit-length 0 takes 3 bytes, its data byte being zero, and
\* header.deserialize consumes the same number of bytes per entry.
C11_EntryBytes == EntriesOfSize(1)

\* deserialize has read a table with a 0-bit entry, or a two-entry table with
\* a code of more than one data byte
C11_Witness ==
    /\ pc = "deserialized"
    /\ \/ \E a \in DOMAIN code : Len(code[a]) = 0
       \/ /\ \E a \in DOMAIN code : Len(code[a]) > 8
          /\ \E a \in DOMAIN code : Len(code[a]) % 8 # 0 /\ 1 \in Symbols(code[a])
          /\ Len(decCode.starts) = 2


\* the payload of the stream encode wrote
Payload == SubSeq(encOut, 7 + headerLen, Len(encOut))

\* bits packed most significant first, eight per byte, the last byte padded
\* with zero bits
PackedBits(bits) ==
    LET B(k) == IF k <= Len(bits) THEN bits[k] ELSE 0
    IN [j \in 1..DataBytes(Len(bits)) |->
           128 * B(8 * j - 7) + 64 * B(8 * j - 6) + 32 * B(8 * j - 5)
           + 16 * B(8 * j - 4) + 8 * B(8 * j - 3) + 4 * B(8 * j - 2)
           + 2 * B(8 * j - 1) + B(8 * j)]

\* C12: both huffman.encode overloads write as payload the codes of the input
\* bytes in input order, packed MSB-first eight bits per byte, every byte
\* holding only its own bits and the last, partially filled byte written with
\* zero padding; bytes after the packed bits, if any, hold no bit.
C12_PayloadIsPackedCodes ==
    (pc = "encoded" /\ ~truncated) =>
        LET packed == PackedBits(CodeBits(dataIn, code, 1, Len(dataIn)))
        IN /\ Len(Payload) >= Len(packed)
           /\ SubSeq(Payload, 1, Len(packed)) = packed
           /\ \A j \in (Len(packed) + 1)..Len(Payload) : Payload[j] = 0

\* C12 for the vector overload alone
C12_VectorPayload == overload = "vector" => C12_PayloadIsPackedCodes


\* the subtree of tree rooted at the node at path p
SubTree(tree, p) ==
    [q \in {SubSeq(r, Len(p) + 1, Len(r)) : r \in {x \in DOMAIN tree : IsPrefix(p, x)}}
        |-> tree[p \o q]]

\* every node has no child or two, and a node with children weighs what its
\* children weigh together
TwoChildrenOrNone(tree) ==
    \A p \in DOMAIN tree :
        /\ HasFirst(tree, p) <=> HasSecond(tree, p)
        /\ HasFirst(tree, p) =>
              tree[p].occurences = tree[Append(p, 0)].occurences
                                   + tree[Append(p, 1)].occurences

RECURSIVE SumOccurences(_, _)
SumOccurences(nodes, k) ==
    IF k > Len(nodes) THEN 0 ELSE Occurences(nodes[k]) + SumOccurences(nodes, k + 1)

NodeSet(nodes) == {nodes[k] : k \in DOMAIN nodes}

\* the candidates while and after the tree is built from a non-empty input
CandidatesWellFormed ==
    (dataIn # <<>> /\ pc \in {"build", "encoded", "walk", "decoded"}) =>
        /\ Len(treeNodes) >= 1
        /\ \A k \in DOMAIN treeNodes : TwoChildrenOrNone(treeNodes[k])
        /\ SumOccurences(treeNodes, 1) = Len(dataIn)
        /\ pc # "build" => (Len(treeNodes) = 1 /\ Occurences(treeNodes[1]) = Len(dataIn))

\* the construction starts with one childless node per distinct symbol
StartsWithLeaves ==
    (pc = "idle" /\ pc' = "build") =>
        /\ Len(treeNodes') = Cardinality(Symbols(dataIn))
        /\ \A k \in DOMAIN treeNodes' : DOMAIN treeNodes'[k] = {<<>>}
        /\ {treeNodes'[k][<<>>].byte : k \in DOMAIN treeNodes'} = Symbols(dataIn)

\* one iteration of the loop takes two candidates of lowest weight away and
\* adds their parent
MergesTwoLowest ==
    (pc = "build" /\ pc' = "build" /\ treeNodes' # treeNodes) =>
        LET parent == treeNodes'[Len(treeNodes')]
            first == SubTree(parent, <<0>>)
            second == SubTree(parent, <<1>>)
        IN /\ Len(treeNodes') = Len(treeNodes) - 1
           /\ first \in NodeSet(treeNodes)
           /\ second \in NodeSet(treeNodes)
           /\ first # second
           /\ Occurences(first) <= Occurences(second)
           /\ \A t \in NodeSet(treeNodes) \ {first, second} :
                  Occurences(second) <= Occurences(t)
           /\ Occurences(parent) = Occurences(first) + Occurences(second)
           /\ NodeSet(treeNodes') = (NodeSet(treeNodes) \ {first, second}) \cup {parent}

\* C13: tree construction on a non-empty input starts with one leaf per
\* distinct symbol; each step removes two candidates of lowest weight and
\* inserts one internal node owning them as (first, second) whose weight is
\* their sum, so the candidate count drops by one per step; when the loop
\* has ended there is exactly one root, every internal node has two children
\* and the root's weight is the input length.
C13_TreeConstruction ==
    /\ []CandidatesWellFormed
    /\ [][StartsWithLeaves /\ MergesTwoLowest]_vars

\* the loop has merged three times and built a tree of depth 3
C13_Witness ==
    /\ pc = "encoded"
    /\ Cardinality(Symbols(dataIn)) = 4
    /\ Len(treeNodes) = 1
    /\ \E p \in DOMAIN treeNodes[1] : Len(p) = 3


\* nodes sorted by occurences with the elements that compare equal kept in
\* the order they had
StableSort(nodes) ==
    LET n == Len(nodes)
        g == CHOOSE f \in [1..n -> 1..n] :
                /\ \A i, j \in 1..n : i # j => f[i] # f[j]
                /\ \A k \in 1..(n - 1) :
                      \/ Occurences(nodes[f[k]]) < Occurences(nodes[f[k + 1]])
                      \/ /\ Occurences(nodes[f[k]]) = Occurences(nodes[f[k + 1]])
                         /\ f[k] < f[k + 1]
    IN [k \in 1..n |-> nodes[g[k]]]

\* C14: tree construction breaks ties by insertion order: in every step the
\* sort leaves candidates of equal weight in the order they had, so the two
\* removed candidates and their (first, second) order are the ones a stable
\* sort puts in front, and the tree, the code table and the output bytes are
\* determined by the input.
C14_StableTieBreak ==
    [][(pc = "build" /\ pc' = "build" /\ treeNodes' # treeNodes) =>
           treeNodes' = MergeFirstTwo(StableSort(treeNodes))]_vars


\* C15: no state left by an earlier huffman.encode or huffman.decode call
\* reaches a later one: node_t::tempBitset is empty whenever getCode has
\* returned to encode, and the code table encode computed is the one getCode
\* yields for the tree when it starts from an empty buffer, whatever calls
\* came before.
C15_NoStateCarriedOver ==
    /\ tempBitset = <<>>
    /\ pc = "encoded" =>
          code = GetCode(treeNodes[1], <<>>, [nodes |-> EmptyMap, temp |-> <<>>]).nodes

\* a call that follows an earlier one has computed a table of three codes
C15_Witness ==
    /\ earlierCalls
    /\ pc = "encoded"
    /\ Cardinality(DOMAIN code) >= 3


\* C16: huffman.decode terminates on every stream huffman.encode produced
\* (here: the vector overload's, handed over whole): the bit-walk, which in
\* each iteration emits a symbol at a childless node or consumes a payload
\* bit, comes to its end, decode returns, and the output it returns has no
\* more than originalLength bytes.
C16_DecodeTerminates ==
    (overload = "vector" /\ ~truncated /\ pc = "decoded") =>
        /\ decStatus = "ok"
        /\ originalDataSize = [hi |-> 0, lo |-> Len(dataIn)]
        /\ Len(decOut) <= Len(dataIn)

====
